---- MODULE Spec2Model ----
(***************************************************************************)
(* A model of the sports MCP server (src/src/nfl_mcp_server/server.py):    *)
(* the SportRadar endpoint configuration, the per-kind resource caches     *)
(* with their read-through parsers, and the tool operations that compose   *)
(* fetch -> parse -> json.dumps inside a try/except.                       *)
(*                                                                         *)
(* Python values are modelled as tagged records (PyDict, PyStr, Raise);    *)
(* a dict is a TLA+ function from its keys, so d.get(k) is decided by      *)
(* k \in DOMAIN d.  Strings are TLC strings; "+" and f-strings are \o.     *)
(***************************************************************************)
EXTENDS Integers, Sequences, FiniteSets, TLC

VARIABLES
    config,     \* mcp.config : SportRadarConfig
    cache,      \* the _cache dict of each resource object, by resource kind
    last,       \* the most recent parse call: its arguments and outcome
    prev,       \* the parse call before it
    cfgOut,     \* the most recent update_api_config / get_base_url / get_data call
    toolOut,    \* the most recent tool invocation
    calls,      \* number of operations performed so far
    inflight    \* the tool invocations the host has started and not yet answered

vars == <<config, cache, last, prev, cfgOut, toolOut, calls, inflight>>

\* Bound on the number of operations in one run.
MaxCalls == 3
\* Bound on the number of tool invocations in one run.
MaxToolCalls == 2

-----------------------------------------------------------------------------
(* Python values *)

\* Python's None where it is used as a dict key or a field value.
None == "<None>"

NoDict == [k \in {} |-> ""]

PyDict(d) == [kind |-> "dict", dict |-> d, str |-> "", exc |-> ""]
PyStr(s) == [kind |-> "str", dict |-> NoDict, str |-> s, exc |-> ""]
Raise(type, msg) == [kind |-> "raise", dict |-> NoDict, str |-> msg, exc |-> type]
NoValue == [kind |-> "none", dict |-> NoDict, str |-> "", exc |-> ""]

Has(d, k) == k \in DOMAIN d

\* s contains sub as a substring
Contains(s, sub) ==
    \E i \in 1..(Len(s) - Len(sub) + 1) : SubSeq(s, i, i + Len(sub) - 1) = sub

StartsWith(s, pre) == Len(s) >= Len(pre) /\ SubSeq(s, 1, Len(pre)) = pre

\* the outcome of one parser run
Outcome(ret, newCache, hit, wrote) ==
    [ret |-> ret, cache |-> newCache, hit |-> hit, wrote |-> wrote]

\* a store that is lost
StoreNothing(c, key, value) == c

\* self._cache[key] = value
Store(c, key, value) == [k \in DOMAIN c \cup {key} |-> IF k = key THEN value ELSE c[k]]

AttrErrStr == "'str' object has no attribute 'get'"
AttrErrNone == "'NoneType' object has no attribute 'get'"

-----------------------------------------------------------------------------
(* sportsclasses.py *)

SupportedSports == {"nfl"}

\* the sports registry: sport -> Sport
sports == [s \in SupportedSports |-> [name |-> s, ver |-> "v7", official |-> TRUE]]

-----------------------------------------------------------------------------
(* Resource parsers.  data is a Python value (PyDict or PyStr: get_data     *)
(* returns a str on a failed request); c is the resource's _cache.          *)

\* the id under which a payload with a top-level 'id' is cached: data.get('id')
TopLevelId(d) == IF Has(d, "id") THEN d.id ELSE None

\* the shared shape of the passthrough parsers: key = data.get('id')
ParseById(data, c) ==
    IF data.kind # "dict" THEN Outcome(Raise("AttributeError", AttrErrStr), c, FALSE, FALSE)
    ELSE LET key == TopLevelId(data.dict) IN
         IF key \in DOMAIN c THEN Outcome(PyDict(c[key]), c, TRUE, FALSE)
         ELSE Outcome(PyDict(data.dict), Store(c, key, data.dict), FALSE, TRUE)

\* a parser that never looks its key up and stores on every call
ParseAlwaysStore(data, c) ==
    IF data.kind # "dict" THEN Outcome(Raise("AttributeError", AttrErrStr), c, FALSE, FALSE)
    ELSE Outcome(PyDict(data.dict), Store(c, TopLevelId(data.dict), data.dict), FALSE, TRUE)

\* SeasonSchedule.parse_football_schedule
parse_football_schedule(data, c) == ParseById(data, c)

GameStats_parse_nfl_stats(data, c) == ParseById(data, c)

TeamStats_parse_nfl_stats(data, c) == ParseById(data, c)

PlayerStats_parse_nfl_stats(data, c) == ParseById(data, c)

LeagueStats_parse_nfl_stats(data, c) ==
    IF data.kind # "dict" THEN Outcome(Raise("AttributeError", AttrErrStr), c, FALSE, FALSE)
    ELSE IF ~Has(data.dict, "league")
    THEN Outcome(Raise("AttributeError", AttrErrNone), c, FALSE, FALSE)
    ELSE LET key == TopLevelId(data.dict.league) IN
         IF key \in DOMAIN c THEN Outcome(PyDict(c[key]), c, TRUE, FALSE)
         ELSE Outcome(PyDict(data.dict), Store(c, key, data.dict), FALSE, TRUE)

\* d.get(k)
Get(d, k) == IF Has(d, k) THEN d[k] ELSE None

TypeErrNonePlus == "unsupported operand type(s) for +: 'NoneType' and 'str'"
TypeErrConcat == "can only concatenate str (not \"NoneType\") to str"
TypeErrIter == "'NoneType' object is not iterable"

NoTransactions == "No transactions done on this day."

\* a + b + c on values that may be None: the string, or the TypeError of the
\* first "+" that meets a None
Concat3(a, b, c) ==
    IF a = None THEN Raise("TypeError", TypeErrNonePlus)
    ELSE IF b = None \/ c = None THEN Raise("TypeError", TypeErrConcat)
    ELSE PyStr(a \o b \o c)

\* a key that leaves the end time out
TransactionIdWithoutEnd(d) ==
    IF ~Has(d, "league") THEN Raise("AttributeError", AttrErrNone)
    ELSE Concat3(Get(d.league, "id"), Get(d, "start_time"), "")

\* transaction_id = data.get('league').get('id') + data.get('start_time') + data.get('end_time')
TransactionId(d) ==
    IF ~Has(d, "league") THEN Raise("AttributeError", AttrErrNone)
    ELSE Concat3(Get(d.league, "id"), Get(d, "start_time"), Get(d, "end_time"))

\* the fault of building ta_temp from one transaction, or NoValue
TransactionFault(t) ==
    IF ~Has(t, "to_team") THEN Raise("AttributeError", AttrErrNone)
    ELSE IF ~Has(t.to_team, "market") THEN Raise("TypeError", TypeErrNonePlus)
    ELSE IF ~Has(t.to_team, "name") THEN Raise("TypeError", TypeErrConcat)
    ELSE NoValue

\* ta_temp
NormTransaction(t) ==
    [transaction |-> Get(t, "desc"),
     effective |-> Get(t, "effective_date"),
     status_before |-> Get(t, "status_before"),
     recieving_team |-> t.to_team.market \o " " \o t.to_team.name]

\* the fault of the loop body for one player, or NoValue
PlayerFault(p) ==
    IF ~Has(p, "transactions") THEN Raise("TypeError", TypeErrIter)
    ELSE IF \E i \in 1..Len(p.transactions) : TransactionFault(p.transactions[i]).kind = "raise"
    THEN LET i == CHOOSE j \in 1..Len(p.transactions) :
                     /\ TransactionFault(p.transactions[j]).kind = "raise"
                     /\ \A h \in 1..(j - 1) : TransactionFault(p.transactions[h]).kind # "raise"
         IN TransactionFault(p.transactions[i])
    ELSE NoValue

\* player
NormPlayer(p) ==
    [name |-> Get(p, "name"),
     position |-> Get(p, "position"),
     transactions |-> [i \in 1..Len(p.transactions) |-> NormTransaction(p.transactions[i])]]

\* the fault of the loop over data.get('players'), or NoValue
PlayersFault(ps) ==
    IF \E i \in 1..Len(ps) : PlayerFault(ps[i]).kind = "raise"
    THEN LET i == CHOOSE j \in 1..Len(ps) :
                     /\ PlayerFault(ps[j]).kind = "raise"
                     /\ \A h \in 1..(j - 1) : PlayerFault(ps[h]).kind # "raise"
         IN PlayerFault(ps[i])
    ELSE NoValue

\* league
NormLeague(d, transaction_id) ==
    [id |-> transaction_id,
     name |-> Get(d.league, "name"),
     start_time |-> Get(d, "start_time"),
     end_time |-> Get(d, "end_time"),
     players |-> [i \in 1..Len(d.players) |-> NormPlayer(d.players[i])]]

\* 'if not data.get("players")': the list is absent or empty
NoPlayers(d) == ~Has(d, "players") \/ Len(d.players) = 0

parse_nfl_transactions(data, c) ==
    IF data.kind # "dict" THEN Outcome(Raise("AttributeError", AttrErrStr), c, FALSE, FALSE)
    ELSE LET d == data.dict
             tid == TransactionId(d)
         IN IF tid.kind = "raise" THEN Outcome(tid, c, FALSE, FALSE)
            ELSE IF tid.str \in DOMAIN c THEN Outcome(PyDict(c[tid.str]), c, TRUE, FALSE)
            ELSE IF NoPlayers(d) THEN Outcome(PyStr(NoTransactions), c, FALSE, FALSE)
            ELSE IF PlayersFault(d.players).kind = "raise"
            THEN Outcome(PlayersFault(d.players), c, FALSE, FALSE)
            ELSE LET league == NormLeague(d, tid.str)
                 IN Outcome(PyDict(league), Store(c, tid.str, league), FALSE, TRUE)

-----------------------------------------------------------------------------
(* Dispatch: parser_map.get(sport) of each resource's parse_* method.       *)

Kinds == {"schedule", "transactions", "game", "league", "team", "player"}

\* parser_map of every resource: the only registered sport is NFL
ParserMap == {"nfl"}

NoParser(c, sport) ==
    Outcome(Raise("ValueError", "No parser implemented for sport: " \o sport), c, FALSE, FALSE)

parse_schedule(data, sport, c) ==
    IF sport \notin ParserMap THEN NoParser(c, sport) ELSE parse_football_schedule(data, c)

parse_transactions(data, sport, c) ==
    IF sport \notin ParserMap THEN NoParser(c, sport) ELSE parse_nfl_transactions(data, c)

GameStats_parse_stats(data, sport, c) ==
    IF sport \notin ParserMap THEN NoParser(c, sport) ELSE GameStats_parse_nfl_stats(data, c)

LeagueStats_parse_stats(data, sport, c) ==
    IF sport \notin ParserMap THEN NoParser(c, sport) ELSE LeagueStats_parse_nfl_stats(data, c)

TeamStats_parse_stats(data, sport, c) ==
    IF sport \notin ParserMap THEN NoParser(c, sport) ELSE TeamStats_parse_nfl_stats(data, c)

PlayerStats_parse_stats(data, sport, c) ==
    IF sport \notin ParserMap THEN NoParser(c, sport) ELSE PlayerStats_parse_nfl_stats(data, c)

\* parse(kind, raw_payload, sport) on the kind's resource object
Parse(kind, data, sport, c) ==
    CASE kind = "schedule" -> parse_schedule(data, sport, c)
      [] kind = "transactions" -> parse_transactions(data, sport, c)
      [] kind = "game" -> GameStats_parse_stats(data, sport, c)
      [] kind = "league" -> LeagueStats_parse_stats(data, sport, c)
      [] kind = "team" -> TeamStats_parse_stats(data, sport, c)
      [] kind = "player" -> PlayerStats_parse_stats(data, sport, c)

-----------------------------------------------------------------------------
(* Upstream payloads the environment can deliver (the inputs of parse).     *)

Game == [id |-> "g1", scheduled |-> "2024-09-08T17:00:00Z", status |-> "closed",
         venue |-> [name |-> "Stadium A", lat |-> "40.1", lng |-> "-74.2"],
         home |-> [name |-> "Team A"], away |-> [name |-> "Team B"],
         scoring |-> [home_points |-> "21", away_points |-> "17"]]

Week(w) == [id |-> w, sequence |-> "1", title |-> "Week", games |-> <<Game>>]

SeasonIds == {"s1", "s2"}
WeekIds == {"w1", "w2"}

\* a weekly schedule as the upstream API sends it: the season id is the top-level id
UpstreamSchedule(sid, w) ==
    [id |-> sid, year |-> "2024", type |-> "REG", name |-> "REG", week |-> Week(w)]

\* a schedule with the season nested under 'season' (no top-level id)
NestedSchedule(sid) ==
    [season |-> [id |-> sid, year |-> "2024"], type |-> "REG", weeks |-> <<Week("w1")>>]

SchedulePayloads ==
    {UpstreamSchedule(sid, w) : sid \in SeasonIds, w \in WeekIds}
        \cup {NestedSchedule("s1")}
        \cup {[year |-> "2024", type |-> "REG", week |-> Week("w1")]}

\* schedule payloads that carry the field the parser keys on
ValidSchedulePayloads == {p \in SchedulePayloads : Has(p, "id") \/ Has(p, "season")}

Team == [market |-> "Dallas", name |-> "Cowboys"]
Transaction == [desc |-> "Signed", effective_date |-> "2024-01-01",
                status_before |-> "FA", to_team |-> Team]
\* a transaction that names no receiving team
Release == [desc |-> "Released", effective_date |-> "2024-01-01", status_before |-> "ACT"]

Player(n) == [name |-> n, position |-> "QB", transactions |-> <<Transaction>>]
ReleasedPlayer == [name |-> "C", position |-> "WR", transactions |-> <<Release>>]

PlayerLists == {<< >>, <<Player("A")>>, <<Player("B")>>, <<ReleasedPlayer>>}

League == [id |-> "L1", name |-> "NFL"]
StartTimes == {"d1", "d2"}
EndTime == "e1"

TransactionsBase(st) == [league |-> League, start_time |-> st, end_time |-> EndTime]

TransactionsPayloads ==
    {TransactionsBase(st) : st \in StartTimes}
        \cup {TransactionsBase(st) @@ [players |-> ps] : st \in StartTimes, ps \in PlayerLists}
        \cup {TransactionsBase(st) @@ [players |-> <<Player("A")>>, _comment |-> "x"] :
                st \in StartTimes}
        \cup {[start_time |-> "d1", end_time |-> EndTime, players |-> <<Player("A")>>]}
        \cup {[league |-> League, end_time |-> EndTime, players |-> <<Player("A")>>]}

StatsIds == {"i1", "i2"}
Contents == {"c1", "c2"}

\* game statistics, a team roster, a player profile: a top-level id and the rest
StatsPayloads ==
    {[id |-> i, summary |-> x] : i \in StatsIds, x \in Contents}
        \cup {[summary |-> "c1"]}

\* the league hierarchy: the id is nested under 'league'
LeaguePayloads ==
    {[league |-> [id |-> i, name |-> "NFL"], conferences |-> x] : i \in {"L1"}, x \in Contents}
        \cup {[conferences |-> "c1"]}

Payloads(kind) ==
    CASE kind = "schedule" -> SchedulePayloads
      [] kind = "transactions" -> TransactionsPayloads
      [] kind = "league" -> LeaguePayloads
      [] OTHER -> StatsPayloads

-----------------------------------------------------------------------------
(* State *)

NoCall ==
    [kind |-> "none", data |-> NoValue, sport |-> "", ret |-> NoValue, hit |-> FALSE,
     added |-> {}, changed |-> FALSE, before |-> {}, after |-> {}]

NoCfgOut ==
    [op |-> "none", args |-> <<>>, before |-> [format |-> "", access_level |-> "", cur_lang |-> ""],
     ret |-> NoValue, url |-> "", prior |-> [op |-> "none", args |-> <<>>]]

NoToolOut ==
    [tool |-> "none", sport |-> "", parsed |-> FALSE, response |-> "", status |-> 0,
     body |-> "", ret |-> NoValue]

\* the invocations the host may have in flight at once
Procs == {"a", "b"}

NoResponse == [kind |-> "none", status |-> 0, text |-> "", json |-> NoDict]

\* an invocation that has not been made
Idle ==
    [pc |-> "idle", tool |-> "none", sport |-> "", response |-> NoResponse,
     ret |-> NoValue, hit |-> FALSE, overlapped |-> FALSE]

\* SportRadarConfig() and the empty _cache of every resource object
Init ==
    /\ config = [format |-> "json", access_level |-> "trial", cur_lang |-> "en"]
    /\ cache = [k \in Kinds |-> NoDict]
    /\ last = NoCall
    /\ prev = NoCall
    /\ cfgOut = NoCfgOut
    /\ toolOut = NoToolOut
    /\ calls = 0
    /\ inflight = [p \in Procs |-> Idle]

\* the record of one parse call on the kind's cache c, with outcome o
CallRecord(kind, data, sport, c, o) ==
    [kind |-> kind, data |-> data, sport |-> sport, ret |-> o.ret, hit |-> o.hit,
     added |-> DOMAIN o.cache \ DOMAIN c, changed |-> o.cache # c,
     before |-> DOMAIN c, after |-> DOMAIN o.cache]

\* one call parse(kind, data, sport) on the process-wide resource object
ParseCall(kind, data, sport) ==
    LET o == Parse(kind, data, sport, cache[kind]) IN
    /\ calls < MaxCalls
    /\ cache' = [cache EXCEPT ![kind] = o.cache]
    /\ prev' = last
    /\ last' = CallRecord(kind, data, sport, cache[kind], o)
    /\ calls' = calls + 1
    /\ UNCHANGED <<config, cfgOut, toolOut, inflight>>

ParseSchedule == \E p \in SchedulePayloads : ParseCall("schedule", PyDict(p), "nfl")

ParseTransactions == \E p \in TransactionsPayloads : ParseCall("transactions", PyDict(p), "nfl")

ParseGameStats == \E p \in StatsPayloads : ParseCall("game", PyDict(p), "nfl")

ParseLeagueStats == \E p \in LeaguePayloads : ParseCall("league", PyDict(p), "nfl")

ParseTeamStats == \E p \in StatsPayloads : ParseCall("team", PyDict(p), "nfl")

ParsePlayerStats == \E p \in StatsPayloads : ParseCall("player", PyDict(p), "nfl")

NextParse ==
    \/ ParseSchedule
    \/ ParseTransactions
    \/ ParseGameStats
    \/ ParseLeagueStats
    \/ ParseTeamStats
    \/ ParsePlayerStats

\* the parsers called directly, in any order, on the shared caches
SpecParse == Init /\ [][NextParse]_vars

-----------------------------------------------------------------------------
(* SportRadarConfig *)

\* f"{v}" of a value that may be None
Str(v) == IF v = None THEN "None" ELSE v

UnsupportedTail ==
    " was not in list of supported sports or is unavailable on SportsRadar. Contact developer for additions"

\* the official leagues: 'sport.name in [SupportedSports.NFL]'
OfficialLeagues == {"nfl"}

\* SportRadarConfig.get_base_url: sport = mcp.sports.get(sport_name)
get_base_url(cfg, sport_name) ==
    LET sport == IF sport_name \in DOMAIN sports THEN sports[sport_name].name ELSE None IN
    IF sport = None
    THEN "Sport " \o Str(sport) \o UnsupportedTail
    ELSE IF sport \in OfficialLeagues
    THEN "https://api.sportradar.com/" \o sport \o "/official/" \o cfg.access_level
             \o "/" \o sports[sport].ver \o "/" \o cfg.cur_lang
    ELSE "https://api.sportradar.com/" \o sport \o "/" \o cfg.access_level
             \o "/" \o sports[sport].ver \o "/" \o cfg.cur_lang

\* what the upstream can answer to one request
HttpErrors == {[status |-> 404, text |-> "Not Found"], [status |-> 500, text |-> "Server Error"]}

OkResponse(payload) == [kind |-> "ok", status |-> 200, text |-> "", json |-> payload]
ErrorResponse(e) == [kind |-> "http_error", status |-> e.status, text |-> e.text, json |-> NoDict]
NoConnection == [kind |-> "no_connection", status |-> 0, text |-> "", json |-> NoDict]

Responses(payloads) ==
    {OkResponse(p) : p \in payloads} \cup {ErrorResponse(e) : e \in HttpErrors} \cup {NoConnection}

\* requests.get(final_url, ...): a URL without a scheme is refused before any
\* request is sent; otherwise the upstream answers or cannot be reached
requests_get(final_url, upstream) ==
    IF ~StartsWith(final_url, "https://") /\ ~StartsWith(final_url, "http://")
    THEN Raise("MissingSchema", "Invalid URL '" \o final_url \o "': No scheme supplied.")
    ELSE IF upstream.kind = "no_connection"
    THEN Raise("ConnectionError", "Max retries exceeded with url")
    ELSE NoValue

\* SportRadarConfig.get_data
get_data(cfg, sport_name, sublink, upstream) ==
    LET final_url == get_base_url(cfg, sport_name) \o sublink
        response == requests_get(final_url, upstream)
    IN IF response.kind = "raise" THEN response
       ELSE IF upstream.status >= 400
       THEN PyStr("API request failed with status " \o ToString(upstream.status)
                      \o ": " \o upstream.text)
       ELSE PyDict(upstream.json)

\* 'if language:' and its like: None and the empty string are falsy
Truthy(v) == v # None /\ v # ""

\* a configuration update that files the format under the access level
UpdatedConfigMisfiled(cfg, language, access_level, format) ==
    [cur_lang |-> IF Truthy(language) THEN language ELSE cfg.cur_lang,
     access_level |-> IF Truthy(format) THEN format
                      ELSE IF Truthy(access_level) THEN access_level ELSE cfg.access_level,
     format |-> cfg.format]

\* the three conditional assignments of update_api_config
UpdatedConfig(cfg, language, access_level, format) ==
    [cur_lang |-> IF Truthy(language) THEN language ELSE cfg.cur_lang,
     access_level |-> IF Truthy(access_level) THEN access_level ELSE cfg.access_level,
     format |-> IF Truthy(format) THEN format ELSE cfg.format]

\* the confirmation string update_api_config returns
Confirmation(cfg) ==
    "Updated Configs:\n    Format: " \o cfg.format
        \o "\n    Language: " \o cfg.cur_lang
        \o "\n    Access Level: " \o cfg.access_level
        \o "\n    Base URL (updated): " \o get_base_url(cfg, "nfl")

Languages == {"en", "fr"}
AccessLevels == {"production"}
Formats == {"xml"}

\* an optional string argument: omitted (None), empty, or one of vals
Optional(vals) == {None, ""} \cup vals

\* sport ids a caller may pass: the registered one and two that are not
SportIds == {"nfl", "nba", "mlb"}

Sublinks == {"/league/hierarchy.json"}

CfgRecord(op, args, ret, url) ==
    [op |-> op, args |-> args, before |-> config, ret |-> ret, url |-> url,
     prior |-> [op |-> cfgOut.op, args |-> cfgOut.args]]

update_api_config ==
    \E language \in Optional(Languages), access_level \in Optional(AccessLevels),
       format \in Optional(Formats) :
        LET new == UpdatedConfig(config, language, access_level, format) IN
        /\ config' = new
        /\ cfgOut' = CfgRecord("update", <<language, access_level, format>>,
                               PyStr(Confirmation(new)), "")
        /\ UNCHANGED <<cache, last, prev, toolOut, calls, inflight>>

\* base_url(sport_id) called on the process-wide configuration
GetBaseUrl ==
    \E sport_name \in SportIds :
        /\ cfgOut' = CfgRecord("base_url", <<sport_name>>,
                               PyStr(get_base_url(config, sport_name)), "")
        /\ UNCHANGED <<config, cache, last, prev, toolOut, calls, inflight>>

\* fetch(sport_id, sub_path) called on the process-wide configuration
GetData ==
    \E sport_name \in SportIds, sublink \in Sublinks, upstream \in Responses(LeaguePayloads) :
        /\ cfgOut' = CfgRecord("get_data", <<sport_name, sublink>>,
                               get_data(config, sport_name, sublink, upstream),
                               get_base_url(config, sport_name) \o sublink)
        /\ UNCHANGED <<config, cache, last, prev, toolOut, calls, inflight>>

NextConfig ==
    \/ update_api_config
    \/ GetBaseUrl
    \/ GetData

\* the configuration operations, in any order
SpecConfig == Init /\ [][NextConfig]_vars

-----------------------------------------------------------------------------
(* Tools *)

\* the letters str.lower() changes
ToLower ==
    ("A" :> "a") @@ ("B" :> "b") @@ ("C" :> "c") @@ ("D" :> "d") @@ ("E" :> "e") @@ ("F" :> "f") @@
    ("G" :> "g") @@ ("H" :> "h") @@ ("I" :> "i") @@ ("J" :> "j") @@ ("K" :> "k") @@ ("L" :> "l") @@
    ("M" :> "m") @@ ("N" :> "n") @@ ("O" :> "o") @@ ("P" :> "p") @@ ("Q" :> "q") @@ ("R" :> "r") @@
    ("S" :> "s") @@ ("T" :> "t") @@ ("U" :> "u") @@ ("V" :> "v") @@ ("W" :> "w") @@ ("X" :> "x") @@
    ("Y" :> "y") @@ ("Z" :> "z")

\* one character of str.lower()
LowerChar(ch) == IF ch \in DOMAIN ToLower THEN ToLower[ch] ELSE ch

RECURSIVE Lower(_)
\* str.lower()
Lower(s) ==
    IF Len(s) = 0 THEN ""
    ELSE Lower(SubSeq(s, 1, Len(s) - 1)) \o LowerChar(SubSeq(s, Len(s), Len(s)))

\* SupportedSports(value): the member, or the enum's ValueError
SupportedSportsOf(value) ==
    IF value \in SupportedSports THEN PyStr(value)
    ELSE Raise("ValueError", "'" \o value \o "' is not a valid SupportedSports")

\* json.dumps(value, indent=2): the JSON text of a dict, or the quoted string
json_dumps(v) ==
    [kind |-> "json", dict |-> v.dict,
     str |-> IF v.kind = "str" THEN "\"" \o v.str \o "\"" ELSE "", exc |-> ""]

Tools ==
    {"get_schedule", "get_daily_transactions", "get_game_stats", "get_league_info",
     "get_team_roster", "get_player_stats"}

\* the resource a tool parses with
KindOf(tool) ==
    CASE tool = "get_schedule" -> "schedule"
      [] tool = "get_daily_transactions" -> "transactions"
      [] tool = "get_game_stats" -> "game"
      [] tool = "get_league_info" -> "league"
      [] tool = "get_team_roster" -> "team"
      [] tool = "get_player_stats" -> "player"

\* the text each tool's except clause puts before str(e)
ErrorPrefix(tool) ==
    CASE tool = "get_schedule" -> "Error getting schedule: "
      [] tool = "get_daily_transactions" -> "Error getting transactions: "
      [] tool = "get_game_stats" -> "Error getting stats: "
      [] tool = "get_league_info" -> "Error getting league info: "
      [] tool = "get_team_roster" -> "Error getting team info: "
      [] tool = "get_player_stats" -> "Error getting league info: "

\* the sub-path each tool requests, for its default or fixed arguments
Sublink(tool, cfg) ==
    CASE tool = "get_schedule" -> "/games/2024/REG/0/schedule." \o cfg.format
      [] tool = "get_daily_transactions" -> "/league/2024/1/1/transactions." \o cfg.format
      [] tool = "get_game_stats" -> "/games/i1/statistics." \o cfg.format
      [] tool = "get_league_info" -> "/league/hierarchy." \o cfg.format
      [] tool = "get_team_roster" -> "/teams/i1/full_roster." \o cfg.format
      [] tool = "get_player_stats" -> "/players/i1/profile." \o cfg.format

\* a handler without its except clause
Uncaught(prefix, r) == r

\* 'except Exception as e: return f"...: {str(e)}"'
Caught(prefix, r) == IF r.kind = "raise" THEN PyStr(prefix \o r.str) ELSE r

\* the body of a tool's try block up to the parse, given sport.lower(): the
\* value handed to the parser, or the exception raised before it
Fetched(tool, lowered, upstream) ==
    LET sport_enum == SupportedSportsOf(lowered) IN
    IF sport_enum.kind = "raise" THEN sport_enum
    ELSE get_data(config, sport_enum.str, Sublink(tool, config), upstream)

\* sport strings a host may pass
SportStrings == {"nfl", "NFL", "nba"}

\* sport.lower() of each of them
Lowered == [s \in SportStrings |-> Lower(s)]

\* one invocation of a sport-data tool, from the call to the returned value
Tool(tool) ==
    \E sport \in SportStrings, upstream \in Responses(Payloads(KindOf(tool))) :
        LET kind == KindOf(tool)
            lowered == Lowered[sport]
            known == lowered \in SupportedSports
            data == Fetched(tool, lowered, upstream)
            reached == data.kind # "raise"
            o == IF reached THEN Parse(kind, data, lowered, cache[kind])
                 ELSE Outcome(data, cache[kind], FALSE, FALSE)
            body == IF o.ret.kind = "raise" THEN o.ret ELSE json_dumps(o.ret)
        IN
        /\ calls < MaxToolCalls
        /\ calls' = calls + 1
        /\ cache' = [cache EXCEPT ![kind] = o.cache]
        /\ IF reached
           THEN /\ prev' = last
                /\ last' = CallRecord(kind, data, lowered, cache[kind], o)
           ELSE UNCHANGED <<last, prev>>
        /\ toolOut' = [tool |-> tool, sport |-> sport, parsed |-> reached,
                       response |-> IF known THEN upstream.kind ELSE "",
                       status |-> IF known THEN upstream.status ELSE 0,
                       body |-> IF known THEN upstream.text ELSE "",
                       ret |-> Caught(ErrorPrefix(tool), body)]
        /\ UNCHANGED <<config, cfgOut, inflight>>

get_schedule == Tool("get_schedule")

get_daily_transactions == Tool("get_daily_transactions")

get_game_stats == Tool("get_game_stats")

get_league_info == Tool("get_league_info")

get_team_roster == Tool("get_team_roster")

get_player_stats == Tool("get_player_stats")

NextTools ==
    \/ get_schedule
    \/ get_daily_transactions
    \/ get_game_stats
    \/ get_league_info
    \/ get_team_roster
    \/ get_player_stats

\* tool invocations handled one at a time
SpecTools == Init /\ [][NextTools]_vars

-----------------------------------------------------------------------------
(* Tools with several invocations in flight.  The handlers hold no await, so *)
(* the only places where the host could switch from one invocation to       *)
(* another are the two blocking calls of get_data: requests.get and         *)
(* time.sleep(1).  Each handler is cut at these two places and nowhere else. *)

\* some other invocation is waiting in get_data
OthersWaiting(p) == \E q \in Procs \ {p} : inflight[q].pc \in {"fetching", "sleeping"}

\* the handler from its call to requests.get: an unknown sport ends it at once
Invoke(p) ==
    \E tool \in Tools, sport \in SportStrings :
        LET sport_enum == SupportedSportsOf(Lowered[sport]) IN
        /\ inflight[p].pc = "idle"
        /\ inflight' = [inflight EXCEPT ![p] =
               [pc |-> IF sport_enum.kind = "raise" THEN "done" ELSE "fetching",
                tool |-> tool, sport |-> sport, response |-> NoResponse,
                ret |-> Caught(ErrorPrefix(tool), sport_enum),
                hit |-> FALSE, overlapped |-> OthersWaiting(p)]]
        /\ UNCHANGED <<config, cache, last, prev, cfgOut, toolOut, calls>>

\* requests.get returns or raises; the handler goes on to time.sleep(1)
Respond(p) ==
    /\ inflight[p].pc = "fetching"
    /\ \E upstream \in Responses(Payloads(KindOf(inflight[p].tool))) :
        LET tool == inflight[p].tool
            final_url == get_base_url(config, Lowered[inflight[p].sport]) \o Sublink(tool, config)
            response == requests_get(final_url, upstream)
        IN
        /\ inflight' = [inflight EXCEPT ![p] =
               IF response.kind = "raise"
               THEN [@ EXCEPT !.pc = "done", !.ret = Caught(ErrorPrefix(tool), response)]
               ELSE [@ EXCEPT !.pc = "sleeping", !.response = upstream]]
        /\ UNCHANGED <<config, cache, last, prev, cfgOut, toolOut, calls>>

\* the handler from the end of time.sleep(1) to its return: the rest of
\* get_data, the parse on the shared cache, json.dumps and the except clause
Resume(p) ==
    LET tool == inflight[p].tool
        kind == KindOf(tool)
        lowered == Lowered[inflight[p].sport]
        data == get_data(config, lowered, Sublink(tool, config), inflight[p].response)
        o == Parse(kind, data, lowered, cache[kind])
        body == IF o.ret.kind = "raise" THEN o.ret ELSE json_dumps(o.ret)
    IN
    /\ inflight[p].pc = "sleeping"
    /\ cache' = [cache EXCEPT ![kind] = o.cache]
    /\ inflight' = [inflight EXCEPT ![p] =
           [@ EXCEPT !.pc = "done", !.ret = Caught(ErrorPrefix(tool), body), !.hit = o.hit]]
    /\ UNCHANGED <<config, last, prev, cfgOut, toolOut, calls>>

NextInFlight ==
    \E p \in Procs :
        \/ Invoke(p)
        \/ Respond(p)
        \/ Resume(p)

\* two tool invocations, interleaved at the blocking calls of get_data
SpecInFlight == Init /\ [][NextInFlight]_vars

\* every operation of the server
Next == NextParse \/ NextConfig \/ NextTools \/ NextInFlight

Spec == Init /\ [][Next]_vars

-----------------------------------------------------------------------------
(* Properties of the parsers (SpecParse) *)

\* the last two calls parsed the same payload with the same parser
SameTwice(kind) ==
    /\ last.kind = kind
    /\ prev.kind = kind
    /\ last.data = prev.data

\* C1: parsing the same valid schedule payload twice in a row, the second call
\* takes the cache-hit branch, writes nothing to the schedule cache and returns
\* the value the first call returned, which is the entry the cache holds for
\* the payload's key; over the two calls at most one store happened.
C1_SecondScheduleParseHits ==
    (SameTwice("schedule") /\ last.data.dict \in ValidSchedulePayloads)
        => /\ last.hit
           /\ ~last.changed
           /\ last.added = {}
           /\ last.ret.kind = "dict"
           /\ last.ret = prev.ret
           /\ last.ret.dict = cache["schedule"][TopLevelId(last.data.dict)]
           /\ Cardinality(prev.added) <= 1

\* the first of two identical schedule parses stored the payload, the second hit
C1_Witness ==
    /\ SameTwice("schedule")
    /\ last.data.dict \in ValidSchedulePayloads
    /\ prev.added # {}
    /\ last.hit

\* a transactions payload with the three key fields and a non-empty player list
KeyedWithPlayers(d) ==
    /\ Has(d, "league") /\ Has(d.league, "id")
    /\ Has(d, "start_time") /\ Has(d, "end_time")
    /\ Has(d, "players") /\ Len(d.players) > 0

DerivedKey(d) == d.league.id \o d.start_time \o d.end_time

KeyFieldAbsent(kind, d) ==
    CASE kind \in {"transactions", "league"} -> ~Has(d, "league")
      [] kind = "schedule" -> ~Has(d, "id") /\ ~Has(d, "season")
      [] OTHER -> ~Has(d, "id")

\* the logical role of the key field of a kind
KeyFieldRole(kind) ==
    CASE kind \in {"transactions", "league"} -> {"league"}
      [] kind = "schedule" -> {"season", "id"}
      [] OTHER -> {"id"}

\* C9 (as claimed): when the key field is absent from the payload, parse ends in
\* an error that names the missing field, is no raw attribute-access or type
\* fault, and leaves no entry under the None key.
C9_MissingKeyIsStructuralError ==
    (last.kind # "none" /\ last.data.kind = "dict" /\ KeyFieldAbsent(last.kind, last.data.dict))
        => /\ last.ret.kind = "raise"
           /\ last.ret.exc \notin {"AttributeError", "TypeError"}
           /\ \E role \in KeyFieldRole(last.kind) : Contains(last.ret.str, role)
           /\ None \notin last.after

\* the fields of the normalized schedule record of the data model
NormalizedScheduleFields == {"season", "season_id", "id", "year", "weeks"}

\* the season id of a schedule payload
SeasonId(d) == IF Has(d, "season") THEN d.season.id ELSE d.id

\* C10 (as claimed): parsing a valid schedule payload returns a record with no
\* field outside the normalized subset, cached under the payload's season id.
C10_ScheduleIsNormalized ==
    (last.kind = "schedule" /\ last.data.dict \in ValidSchedulePayloads)
        => /\ last.ret.kind = "dict"
           /\ DOMAIN last.ret.dict \subseteq NormalizedScheduleFields
           /\ SeasonId(last.data.dict) \in last.after

-----------------------------------------------------------------------------
(* Properties of the configuration (SpecConfig) *)

\* the base URL of the NFL for an access level and a language
NflUrl(access_level, language) ==
    "https://api.sportradar.com/nfl/official/" \o access_level \o "/v7/" \o language

\* the confirmation shows the base URL of the configuration after the update,
\* and base_url("nfl") right after update_api_config(language="fr") ends in /fr
ConfirmationAndUrlAreFresh ==
    /\ cfgOut.op = "update"
          => /\ cfgOut.ret.kind = "str"
             /\ Contains(cfgOut.ret.str, "Base URL (updated): "
                             \o NflUrl(config.access_level, config.cur_lang))
             /\ (cfgOut.args[1] = "fr" => config.cur_lang = "fr")
    /\ (cfgOut.op = "base_url" /\ cfgOut.args[1] = "nfl" /\ cfgOut.prior.op = "update")
          => /\ cfgOut.ret.str = NflUrl(config.access_level, config.cur_lang)
             /\ (cfgOut.prior.args[1] = "fr"
                    => cfgOut.ret.str = NflUrl(config.access_level, "fr"))

\* C5 (as claimed): every omitted field of update_api_config keeps its value and
\* every provided field takes the provided value.
C5_ProvidedFieldsTakeTheirValue ==
    /\ ConfirmationAndUrlAreFresh
    /\ cfgOut.op = "update"
          => /\ config.cur_lang =
                    IF cfgOut.args[1] = None THEN cfgOut.before.cur_lang ELSE cfgOut.args[1]
             /\ config.access_level =
                    IF cfgOut.args[2] = None THEN cfgOut.before.access_level ELSE cfgOut.args[2]
             /\ config.format =
                    IF cfgOut.args[3] = None THEN cfgOut.before.format ELSE cfgOut.args[3]

\* C5 (amended): after update_api_config(language="fr"), base_url("nfl") has "fr"
\* as its language segment; every field that is omitted or given as the empty
\* string keeps its value, every field given a non-empty value takes it, and the
\* confirmation shows the base URL of the configuration after the update.
C5_NonEmptyFieldsTakeTheirValue ==
    /\ ConfirmationAndUrlAreFresh
    /\ cfgOut.op = "update"
          => /\ config.cur_lang =
                    IF cfgOut.args[1] \in {None, ""} THEN cfgOut.before.cur_lang
                    ELSE cfgOut.args[1]
             /\ config.access_level =
                    IF cfgOut.args[2] \in {None, ""} THEN cfgOut.before.access_level
                    ELSE cfgOut.args[2]
             /\ config.format =
                    IF cfgOut.args[3] \in {None, ""} THEN cfgOut.before.format
                    ELSE cfgOut.args[3]

\* update_api_config(language="fr") alone, then base_url("nfl"), on the defaults
C5_Witness ==
    /\ cfgOut.op = "base_url"
    /\ cfgOut.args = <<"nfl">>
    /\ cfgOut.prior = [op |-> "update", args |-> <<"fr", None, None>>]
    /\ config = [format |-> "json", access_level |-> "trial", cur_lang |-> "fr"]
    /\ cfgOut.ret.str = "https://api.sportradar.com/nfl/official/trial/v7/fr"

\* C6 (as claimed): for a sport id outside the registry, base_url and fetch
\* return (do not raise) an error string that names that sport id.
C6_UnknownSportIsNamed ==
    (cfgOut.op \in {"base_url", "get_data"} /\ cfgOut.args[1] \notin DOMAIN sports)
        => /\ cfgOut.ret.kind = "str"
           /\ Contains(cfgOut.ret.str, cfgOut.args[1])

-----------------------------------------------------------------------------
(* Properties of the tools (SpecTools) *)

\* C3 (as claimed): a transactions payload with league, start_time and end_time
\* and an empty or absent player list parses to the sentinel string, and
\* get_daily_transactions returns the sentinel as JSON text, not an error string.
C3_NoPlayersYieldsSentinel ==
    (/\ toolOut.tool = "get_daily_transactions"
     /\ toolOut.response = "ok"
     /\ Has(last.data.dict, "league") /\ Has(last.data.dict, "start_time")
     /\ Has(last.data.dict, "end_time")
     /\ NoPlayers(last.data.dict))
        => /\ last.ret = PyStr("No transactions done on this day.")
           /\ toolOut.ret.kind = "json"
           /\ toolOut.ret.str = "\"No transactions done on this day.\""

\* C7: every invocation of a sport-data tool ends by returning a string: JSON
\* text, or an error string that begins with the tool's error prefix; no
\* exception leaves the handler, whatever the sport string and the upstream did.
C7_ToolsReturnStrings ==
    toolOut.tool # "none"
        => /\ toolOut.ret.kind \in {"json", "str"}
           /\ toolOut.ret.kind = "str" => StartsWith(toolOut.ret.str, ErrorPrefix(toolOut.tool))
           /\ (toolOut.parsed /\ last.ret.kind = "raise") => toolOut.ret.kind = "str"
           /\ ~toolOut.parsed => toolOut.ret.kind = "str"

\* a payload without its league object made the parser raise inside a tool,
\* and the tool returned an error string
C7_Witness ==
    /\ toolOut.tool = "get_league_info"
    /\ toolOut.response = "ok"
    /\ toolOut.parsed
    /\ last.ret.exc = "AttributeError"
    /\ toolOut.ret = PyStr("Error getting league info: 'NoneType' object has no attribute 'get'")

\* C8 (as claimed): on a non-success status fetch returns an error string with
\* the status code and the body, and the string the tool returns carries them.
C8_TransportErrorIsSurfaced ==
    toolOut.response = "http_error"
        => /\ last.data = PyStr("API request failed with status " \o ToString(toolOut.status)
                                    \o ": " \o toolOut.body)
           /\ Contains(toolOut.ret.str, ToString(toolOut.status))
           /\ Contains(toolOut.ret.str, toolOut.body)

-----------------------------------------------------------------------------
(* Transparency of the caches (SpecParse) *)

\* C12 (as claimed): whatever was parsed before, parse(kind, p, "nfl") returns
\* the value it returns on an empty cache, so the value always derives from p
\* (stated here for caches that hold entries under proper keys only).
C12_CachingIsTransparent ==
    (last.kind # "none" /\ last.data.kind = "dict" /\ None \notin last.before)
        => last.ret = Parse(last.kind, last.data, last.sport, NoDict).ret

-----------------------------------------------------------------------------
(* Two invocations in flight (SpecInFlight) *)

\* both invocations have returned, they called the same tool, and their
\* fetches returned the same payload
SamePayloadBothDone ==
    /\ \A p \in Procs : inflight[p].pc = "done"
    /\ inflight["a"].tool = inflight["b"].tool
    /\ inflight["a"].response.kind = "ok"
    /\ inflight["b"].response.kind = "ok"
    /\ inflight["a"].response.json = inflight["b"].response.json

\* one invocation of the tool of a, alone on an empty cache, for its payload
Alone ==
    Parse(KindOf(inflight["a"].tool), PyDict(inflight["a"].response.json), "nfl", NoDict)

\* the cache of the kind the two invocations parsed with
TheirCache == cache[KindOf(inflight["a"].tool)]

====
